---- MODULE Spec2Model ----
(***************************************************************************)
(* Model of the simple-option contract (src/src/contract.rs): one          *)
(* persisted State record in a single storage slot, the entry points init, *)
(* handle_transfer, handle_execute, handle_burn and query_config, and the  *)
(* response (error or messages + attributes) each call returns.            *)
(***************************************************************************)
EXTENDS Integers, Sequences, FiniteSets, TLC

VARIABLES storage, height, call, response, access,
          prev_owner, reclaimable, settled

vars == <<storage, height, call, response, access,
          prev_owner, reclaimable, settled>>

(* ---------------- bounds and input domains ---------------- *)

\* largest block height (env.block.height) explored
MaxHeight == 2

\* sender / recipient identities (HumanAddr)
Addrs == {"creator", "owner", "anyone"}

\* expiration heights submitted in InitMsg
Expirations == 0..MaxHeight

coin(amount, denom) == [denom |-> denom, amount |-> amount]

\* Vec<Coin> values used as sent_funds and counter_offer: the empty vector,
\* one coin, and the same two coins listed in both orders.
FundsChoices ==
  { <<>>,
    <<coin(1, "ETH")>>,
    <<coin(1, "ETH"), coin(1, "BTC")>>,
    <<coin(1, "BTC"), coin(1, "ETH")>> }

\* env.contract.address
contract_address == "cosmos2contract"

(* ---------------- storage slot ---------------- *)

\* the singleton slot is empty (None) or holds one State (Some)
None == <<>>
Some(state) == <<state>>
unwrap(opt) == opt[1]

State(creator, owner, collateral, counter_offer, expires) ==
  [creator |-> creator, owner |-> owner, collateral |-> collateral,
   counter_offer |-> counter_offer, expires |-> expires]

(* ---------------- responses ---------------- *)

Response(kind, msg, arg, messages, attributes, data) ==
  [kind |-> kind, msg |-> msg, arg |-> arg, messages |-> messages,
   attributes |-> attributes, data |-> data]

\* Ok(InitResponse) / Ok(HandleResponse): messages and attributes
Ok(messages, attributes) == Response("Ok", "", <<>>, messages, attributes, None)

\* Ok(ConfigResponse): the loaded state
OkData(state) == Response("Ok", "", <<>>, <<>>, <<>>, Some(state))

\* Err(StdError::generic_err(msg)); arg is the value formatted into msg
generic_err(msg, arg) == Response("GenericErr", msg, arg, <<>>, <<>>, None)

\* Err(StdError::NotFound) propagated by `load()?`
not_found == Response("NotFound", "", <<>>, <<>>, <<>>, None)

InvalidExpiration == generic_err("Cannot create expired option", <<>>)
Unauthorized == generic_err("Sender must be owner", <<>>)
Expired == generic_err("option expired", <<>>)
FundsMismatch(counter_offer) ==
  generic_err("must send exact counter_offer: {:?}", counter_offer)
NotYetExpired == generic_err("option not yet expired", <<>>)
UnexpectedFunds == generic_err("don't send funds with burn", <<>>)

\* BankMsg::Send { from_address, to_address, amount }
BankSend(from, to, amount) ==
  [from_address |-> from, to_address |-> to, amount |-> amount]

attr(key, value) == <<key, value>>

\* outcome of one entry point: the storage operations it performed, the slot
\* afterwards and the response
Outcome(ops, store, resp) == [ops |-> ops, storage |-> store, response |-> resp]

(* ---------------- entry points ---------------- *)

\* init with the expiry test weakened to `<`
init_nonstrict(store, sender, sent_funds, counter_offer, expires, h) ==
  IF expires < h
  THEN Outcome(<<>>, store, InvalidExpiration)
  ELSE Outcome(<<"save">>, Some(State(sender, sender, sent_funds, counter_offer, expires)),
                           Ok(<<>>, <<>>))

\* init storing the two fund vectors in each other's field
init_swapped_funds(store, sender, sent_funds, counter_offer, expires, h) ==
  IF expires <= h
  THEN Outcome(<<>>, store, InvalidExpiration)
  ELSE Outcome(<<"save">>, Some(State(sender, sender, counter_offer, sent_funds, expires)),
                           Ok(<<>>, <<>>))

init(store, sender, sent_funds, counter_offer, expires, h) ==
  IF expires <= h
  THEN Outcome(<<>>, store, InvalidExpiration)
  ELSE Outcome(<<"save">>, Some(State(sender, sender, sent_funds, counter_offer, expires)),
                           Ok(<<>>, <<>>))

\* handle_transfer that also lets the creator through
handle_transfer_creator_allowed(store, sender, recipient) ==
  IF store = None THEN Outcome(<<"load">>, store, not_found)
  ELSE LET state == unwrap(store) IN
    IF sender # state.owner /\ sender # state.creator
    THEN Outcome(<<"load">>, store, Unauthorized)
    ELSE Outcome(<<"load", "save">>, Some([state EXCEPT !.owner = recipient]),
                                     Ok(<<>>, <<attr("action", "transfer"), attr("owner", recipient)>>))

\* handle_transfer that moves creator along with owner
handle_transfer_moves_creator(store, sender, recipient) ==
  IF store = None THEN Outcome(<<"load">>, store, not_found)
  ELSE LET state == unwrap(store) IN
    IF sender # state.owner
    THEN Outcome(<<"load">>, store, Unauthorized)
    ELSE Outcome(<<"load", "save">>, Some([state EXCEPT !.owner = recipient, !.creator = recipient]),
                                     Ok(<<>>, <<attr("action", "transfer"), attr("owner", recipient)>>))

handle_transfer(store, sender, recipient) ==
  IF store = None THEN Outcome(<<"load">>, store, not_found)
  ELSE LET state == unwrap(store) IN
    IF sender # state.owner
    THEN Outcome(<<"load">>, store, Unauthorized)
    ELSE Outcome(<<"load", "save">>, Some([state EXCEPT !.owner = recipient]),
                                     Ok(<<>>, <<attr("action", "transfer"), attr("owner", recipient)>>))

\* handle_execute adding the two messages in the other order
handle_execute_swapped(store, sender, sent_funds, h) ==
  IF store = None THEN Outcome(<<"load">>, store, not_found)
  ELSE LET state == unwrap(store) IN
    IF sender # state.owner
    THEN Outcome(<<"load">>, store, Unauthorized)
    ELSE IF h >= state.expires
    THEN Outcome(<<"load">>, store, Expired)
    ELSE IF sent_funds # state.counter_offer
    THEN Outcome(<<"load">>, store, FundsMismatch(state.counter_offer))
    ELSE Outcome(<<"load", "remove">>, None,
                                       Ok(<<BankSend(contract_address, state.owner, state.collateral),
                                            BankSend(contract_address, state.creator, state.counter_offer)>>,
                                          <<attr("action", "execute")>>))

\* handle_execute testing expiry before the sender
handle_execute_expiry_first(store, sender, sent_funds, h) ==
  IF store = None THEN Outcome(<<"load">>, store, not_found)
  ELSE LET state == unwrap(store) IN
    IF h >= state.expires
    THEN Outcome(<<"load">>, store, Expired)
    ELSE IF sender # state.owner
    THEN Outcome(<<"load">>, store, Unauthorized)
    ELSE IF sent_funds # state.counter_offer
    THEN Outcome(<<"load">>, store, FundsMismatch(state.counter_offer))
    ELSE Outcome(<<"load", "remove">>, None,
                                       Ok(<<BankSend(contract_address, state.creator, state.counter_offer),
                                            BankSend(contract_address, state.owner, state.collateral)>>,
                                          <<attr("action", "execute")>>))

\* handle_execute removing the record before the funds test
handle_execute_early_remove(store, sender, sent_funds, h) ==
  IF store = None THEN Outcome(<<"load">>, store, not_found)
  ELSE LET state == unwrap(store) IN
    IF sender # state.owner
    THEN Outcome(<<"load">>, store, Unauthorized)
    ELSE IF h >= state.expires
    THEN Outcome(<<"load">>, store, Expired)
    ELSE IF sent_funds # state.counter_offer
    THEN Outcome(<<"load", "remove">>, None, FundsMismatch(state.counter_offer))
    ELSE Outcome(<<"load", "remove">>, None,
                                       Ok(<<BankSend(contract_address, state.creator, state.counter_offer),
                                            BankSend(contract_address, state.owner, state.collateral)>>,
                                          <<attr("action", "execute")>>))

\* handle_execute testing the sender against the creator
handle_execute_checks_creator(store, sender, sent_funds, h) ==
  IF store = None THEN Outcome(<<"load">>, store, not_found)
  ELSE LET state == unwrap(store) IN
    IF sender # state.creator
    THEN Outcome(<<"load">>, store, Unauthorized)
    ELSE IF h >= state.expires
    THEN Outcome(<<"load">>, store, Expired)
    ELSE IF sent_funds # state.counter_offer
    THEN Outcome(<<"load">>, store, FundsMismatch(state.counter_offer))
    ELSE Outcome(<<"load", "remove">>, None,
                 Ok(<<BankSend(contract_address, state.creator, state.counter_offer),
                      BankSend(contract_address, state.owner, state.collateral)>>,
                    <<attr("action", "execute")>>))

\* handle_execute with the expiry test weakened to `>`
handle_execute_expiry_late(store, sender, sent_funds, h) ==
  IF store = None THEN Outcome(<<"load">>, store, not_found)
  ELSE LET state == unwrap(store) IN
    IF sender # state.owner
    THEN Outcome(<<"load">>, store, Unauthorized)
    ELSE IF h > state.expires
    THEN Outcome(<<"load">>, store, Expired)
    ELSE IF sent_funds # state.counter_offer
    THEN Outcome(<<"load">>, store, FundsMismatch(state.counter_offer))
    ELSE Outcome(<<"load", "remove">>, None,
                 Ok(<<BankSend(contract_address, state.creator, state.counter_offer),
                      BankSend(contract_address, state.owner, state.collateral)>>,
                    <<attr("action", "execute")>>))

\* handle_execute that does not remove the record
handle_execute_keeps_record(store, sender, sent_funds, h) ==
  IF store = None THEN Outcome(<<"load">>, store, not_found)
  ELSE LET state == unwrap(store) IN
    IF sender # state.owner
    THEN Outcome(<<"load">>, store, Unauthorized)
    ELSE IF h >= state.expires
    THEN Outcome(<<"load">>, store, Expired)
    ELSE IF sent_funds # state.counter_offer
    THEN Outcome(<<"load">>, store, FundsMismatch(state.counter_offer))
    ELSE Outcome(<<"load">>, store,
                 Ok(<<BankSend(contract_address, state.creator, state.counter_offer),
                      BankSend(contract_address, state.owner, state.collateral)>>,
                    <<attr("action", "execute")>>))

\* handle_execute with the two recipients exchanged
handle_execute_swapped_recipients(store, sender, sent_funds, h) ==
  IF store = None THEN Outcome(<<"load">>, store, not_found)
  ELSE LET state == unwrap(store) IN
    IF sender # state.owner
    THEN Outcome(<<"load">>, store, Unauthorized)
    ELSE IF h >= state.expires
    THEN Outcome(<<"load">>, store, Expired)
    ELSE IF sent_funds # state.counter_offer
    THEN Outcome(<<"load">>, store, FundsMismatch(state.counter_offer))
    ELSE Outcome(<<"load", "remove">>, None,
                 Ok(<<BankSend(contract_address, state.owner, state.counter_offer),
                      BankSend(contract_address, state.creator, state.collateral)>>,
                    <<attr("action", "execute")>>))

handle_execute(store, sender, sent_funds, h) ==
  IF store = None THEN Outcome(<<"load">>, store, not_found)
  ELSE LET state == unwrap(store) IN
    IF sender # state.owner
    THEN Outcome(<<"load">>, store, Unauthorized)
    ELSE IF h >= state.expires
    THEN Outcome(<<"load">>, store, Expired)
    ELSE IF sent_funds # state.counter_offer
    THEN Outcome(<<"load">>, store, FundsMismatch(state.counter_offer))
    ELSE Outcome(<<"load", "remove">>, None,
                                       Ok(<<BankSend(contract_address, state.creator, state.counter_offer),
                                            BankSend(contract_address, state.owner, state.collateral)>>,
                                          <<attr("action", "execute")>>))

\* handle_burn paying the collateral to the owner
handle_burn_to_owner(store, sent_funds, h) ==
  IF store = None THEN Outcome(<<"load">>, store, not_found)
  ELSE LET state == unwrap(store) IN
    IF h < state.expires
    THEN Outcome(<<"load">>, store, NotYetExpired)
    ELSE IF sent_funds # <<>>
    THEN Outcome(<<"load">>, store, UnexpectedFunds)
    ELSE Outcome(<<"load", "remove">>, None,
                                       Ok(<<BankSend(contract_address, state.owner, state.collateral)>>,
                                          <<attr("action", "burn")>>))

\* handle_burn testing the funds before the expiry
handle_burn_funds_first(store, sent_funds, h) ==
  IF store = None THEN Outcome(<<"load">>, store, not_found)
  ELSE LET state == unwrap(store) IN
    IF sent_funds # <<>>
    THEN Outcome(<<"load">>, store, UnexpectedFunds)
    ELSE IF h < state.expires
    THEN Outcome(<<"load">>, store, NotYetExpired)
    ELSE Outcome(<<"load", "remove">>, None,
                                       Ok(<<BankSend(contract_address, state.creator, state.collateral)>>,
                                          <<attr("action", "burn")>>))

\* handle_burn that treats an empty slot as nothing to do
handle_burn_missing_ok(store, sent_funds, h) ==
  IF store = None THEN Outcome(<<"load">>, store, Ok(<<>>, <<attr("action", "burn")>>))
  ELSE LET state == unwrap(store) IN
    IF h < state.expires
    THEN Outcome(<<"load">>, store, NotYetExpired)
    ELSE IF sent_funds # <<>>
    THEN Outcome(<<"load">>, store, UnexpectedFunds)
    ELSE Outcome(<<"load", "remove">>, None,
                 Ok(<<BankSend(contract_address, state.creator, state.collateral)>>,
                    <<attr("action", "burn")>>))

\* handle_burn that loads the record again before removing it
handle_burn_reloads(store, sent_funds, h) ==
  IF store = None THEN Outcome(<<"load">>, store, not_found)
  ELSE LET state == unwrap(store) IN
    IF h < state.expires
    THEN Outcome(<<"load">>, store, NotYetExpired)
    ELSE IF sent_funds # <<>>
    THEN Outcome(<<"load">>, store, UnexpectedFunds)
    ELSE Outcome(<<"load", "load", "remove">>, None,
                 Ok(<<BankSend(contract_address, state.creator, state.collateral)>>,
                    <<attr("action", "burn")>>))

handle_burn(store, sent_funds, h) ==
  IF store = None THEN Outcome(<<"load">>, store, not_found)
  ELSE LET state == unwrap(store) IN
    IF h < state.expires
    THEN Outcome(<<"load">>, store, NotYetExpired)
    ELSE IF sent_funds # <<>>
    THEN Outcome(<<"load">>, store, UnexpectedFunds)
    ELSE Outcome(<<"load", "remove">>, None,
                                       Ok(<<BankSend(contract_address, state.creator, state.collateral)>>,
                                          <<attr("action", "burn")>>))

query_config(store) ==
  IF store = None THEN Outcome(<<"load">>, store, not_found)
  ELSE Outcome(<<"load">>, store, OkData(unwrap(store)))

(* ---------------- state machine ---------------- *)

\* the call in progress: entry point, MessageInfo, message fields, the block
\* height it ran at, and the slot as it was when the call started
Call(op, sender, sent_funds, recipient, counter_offer, expires) ==
  [op |-> op, sender |-> sender, sent_funds |-> sent_funds,
   recipient |-> recipient, counter_offer |-> counter_offer,
   expires |-> expires, height |-> height, pre |-> storage]

\* no call in progress: nothing of a call's context is kept between calls
NoCall ==
  [op |-> "none", sender |-> "creator", sent_funds |-> <<>>,
   recipient |-> "creator", counter_offer |-> <<>>, expires |-> 0,
   height |-> 0, pre |-> None]

Idle == call.op = "none"

\* no identity: the record in the slot has not changed hands
NoAddr == "-"

\* burn would pass its expiry test on this slot at height h
Reclaimable(store, h) == store # None /\ h >= unwrap(store).expires

\* What the calls so far did to the record now (or last) in the slot; a
\* successful init starts a new record and starts these over.
\*   prev_owner  - the owner the last owner-changing transfer took it from
\*   reclaimable - at some height since its creation burn's expiry test passed
\*   settled     - how many execute or burn calls on it succeeded
Record(c, outcome) ==
  LET ok == outcome.response.kind = "Ok" IN
  /\ prev_owner' =
       IF c.op = "init" /\ ok THEN NoAddr
       ELSE IF c.op = "transfer" /\ ok /\ c.recipient # unwrap(storage).owner
       THEN unwrap(storage).owner
       ELSE prev_owner
  /\ reclaimable' =
       IF c.op = "init" /\ ok THEN Reclaimable(outcome.storage, height)
       ELSE reclaimable
  /\ settled' =
       IF c.op = "init" /\ ok THEN 0
       ELSE IF c.op \in {"execute", "burn"} /\ ok THEN settled + 1
       ELSE settled

\* an entry point runs to completion: the slot and the response are its outcome
Commit(c, outcome) ==
  /\ Idle
  /\ call' = c
  /\ storage' = outcome.storage
  /\ response' = outcome.response
  /\ access' = outcome.ops
  /\ Record(c, outcome)
  /\ UNCHANGED height

Init ==
  /\ storage = None
  /\ height = 0
  /\ call = NoCall
  /\ response = Ok(<<>>, <<>>)
  /\ access = <<>>
  /\ prev_owner = NoAddr
  /\ reclaimable = FALSE
  /\ settled = 0

\* the chain produces the next block: env.block.height grows between calls
NextBlock ==
  /\ Idle
  /\ height < MaxHeight
  /\ height' = height + 1
  /\ reclaimable' = (reclaimable \/ Reclaimable(storage, height + 1))
  /\ UNCHANGED <<storage, call, response, access, prev_owner, settled>>

DoInit ==
  \E sender \in Addrs, sent_funds \in FundsChoices,
     counter_offer \in FundsChoices, expires \in Expirations :
    Commit(Call("init", sender, sent_funds, sender, counter_offer, expires),
           init(storage, sender, sent_funds, counter_offer, expires, height))

DoTransfer ==
  \E sender \in Addrs, recipient \in Addrs :
    Commit(Call("transfer", sender, <<>>, recipient, <<>>, 0),
           handle_transfer(storage, sender, recipient))

DoExecute ==
  \E sender \in Addrs, sent_funds \in FundsChoices :
    Commit(Call("execute", sender, sent_funds, sender, <<>>, 0),
           handle_execute(storage, sender, sent_funds, height))

\* burn dispatched only for the creator, anyone else rejected
DoBurn_creator_only ==
  \E sender \in Addrs, sent_funds \in FundsChoices :
    Commit(Call("burn", sender, sent_funds, sender, <<>>, 0),
           IF storage # None /\ sender # unwrap(storage).creator
           THEN Outcome(<<"load">>, storage, Unauthorized)
           ELSE handle_burn(storage, sent_funds, height))

DoBurn ==
  \E sender \in Addrs, sent_funds \in FundsChoices :
    Commit(Call("burn", sender, sent_funds, sender, <<>>, 0),
           handle_burn(storage, sent_funds, height))

DoQuery ==
  Commit(Call("query", "anyone", <<>>, "anyone", <<>>, 0),
         query_config(storage))

\* the response goes back to the caller; only the slot outlives the call
Return ==
  /\ ~Idle
  /\ call' = NoCall
  /\ response' = Ok(<<>>, <<>>)
  /\ access' = <<>>
  /\ UNCHANGED <<storage, height, prev_owner, reclaimable, settled>>

Next ==
  \/ NextBlock
  \/ DoInit
  \/ DoTransfer
  \/ DoExecute
  \/ DoBurn
  \/ DoQuery
  \/ Return

Spec == Init /\ [][Next]_vars

\* counter_offer vectors InitMsg can carry beyond FundsChoices: a zero
\* amount, and one denomination listed twice
MalformedFunds ==
  { <<coin(0, "ETH")>>,
    <<coin(1, "ETH"), coin(1, "ETH")>> }

DoInitAnyOffer ==
  \E sender \in Addrs, sent_funds \in FundsChoices,
     counter_offer \in FundsChoices \cup MalformedFunds, expires \in Expirations :
    Commit(Call("init", sender, sent_funds, sender, counter_offer, expires),
           init(storage, sender, sent_funds, counter_offer, expires, height))

NextAnyOffer ==
  \/ NextBlock
  \/ DoInitAnyOffer
  \/ DoTransfer
  \/ DoExecute
  \/ DoBurn
  \/ DoQuery
  \/ Return

SpecAnyOffer == Init /\ [][NextAnyOffer]_vars

TypeOK ==
  /\ height \in 0..MaxHeight
  /\ Len(storage) <= 1
  /\ call.op \in {"none", "init", "transfer", "execute", "burn", "query"}
  /\ call.height <= height

(* ---------------- properties ---------------- *)

\* the record the last call started from, when there was one
Active == call.pre # None
rec == unwrap(call.pre)

\* C1: on an Active record, execute by the owner at a height below expires
\* with sent_funds equal to counter_offer succeeds, emits exactly the two
\* sends counter_offer -> creator then collateral -> owner, both from the
\* contract's address, and leaves the slot empty.
C1_ExerciseSettles ==
  (/\ call.op = "execute" /\ Active
   /\ call.sender = rec.owner
   /\ call.height < rec.expires
   /\ call.sent_funds = rec.counter_offer)
  => /\ response.kind = "Ok"
     /\ response.messages =
          <<BankSend(contract_address, rec.creator, rec.counter_offer),
            BankSend(contract_address, rec.owner, rec.collateral)>>
     /\ storage = None

C1_Witness ==
  /\ call.op = "execute" /\ Active
  /\ call.sender = rec.owner
  /\ call.height < rec.expires
  /\ call.sent_funds = rec.counter_offer
  /\ rec.owner # rec.creator
  /\ rec.collateral # rec.counter_offer
  /\ Len(response.messages) = 2
  /\ storage = None

\* C2: execute on an Active record tests sender, then expiry, then funds:
\* a sender other than the owner gets "Sender must be owner" whatever the
\* height and funds; the owner at height >= expires (height = expires
\* included) gets "option expired" whatever the funds; the owner before
\* expiry with other funds gets "must send exact counter_offer".
C2_ExerciseErrorOrder ==
  (call.op = "execute" /\ Active)
  => /\ call.sender # rec.owner => response = Unauthorized
     /\ (call.sender = rec.owner /\ call.height >= rec.expires)
          => response = Expired
     /\ (/\ call.sender = rec.owner
         /\ call.height < rec.expires
         /\ call.sent_funds # rec.counter_offer)
          => response = FundsMismatch(rec.counter_offer)

C2_Witness ==
  /\ call.op = "execute" /\ Active
  /\ call.sender # rec.owner
  /\ call.height = rec.expires
  /\ call.sent_funds # rec.counter_offer
  /\ response = Unauthorized

\* C3: on an Active record, burn at a height >= expires (height = expires
\* included) with no funds succeeds, emits exactly one send of the
\* collateral from the contract's address to the creator, and leaves the
\* slot empty.
C3_ReclaimSettles ==
  (/\ call.op = "burn" /\ Active
   /\ call.height >= rec.expires
   /\ call.sent_funds = <<>>)
  => /\ response.kind = "Ok"
     /\ response.messages =
          <<BankSend(contract_address, rec.creator, rec.collateral)>>
     /\ storage = None

C3_Witness ==
  /\ call.op = "burn" /\ Active
  /\ call.height = rec.expires
  /\ call.sent_funds = <<>>
  /\ rec.owner # rec.creator
  /\ call.sender = rec.owner
  /\ Len(response.messages) = 1
  /\ response.messages[1].to_address = rec.creator
  /\ storage = None

\* C4: burn on an Active record before expires fails with "option not yet
\* expired" whatever funds are sent; at or after expires with any funds it
\* fails with "don't send funds with burn".
C4_ReclaimErrorOrder ==
  (call.op = "burn" /\ Active)
  => /\ call.height < rec.expires => response = NotYetExpired
     /\ (call.height >= rec.expires /\ call.sent_funds # <<>>)
          => response = UnexpectedFunds

C4_Witness ==
  /\ call.op = "burn" /\ Active
  /\ call.height < rec.expires
  /\ call.sent_funds # <<>>
  /\ response = NotYetExpired

\* C5: a failing init, transfer, execute or burn leaves the slot exactly as
\* it was before the call and returns no messages.
C5_FailureCommitsNothing ==
  (call.op \in {"init", "transfer", "execute", "burn"} /\ response.kind # "Ok")
  => /\ storage = call.pre
     /\ response.messages = <<>>

C5_Witness ==
  /\ call.op = "execute" /\ Active
  /\ response = FundsMismatch(rec.counter_offer)
  /\ storage = call.pre

\* C6: init with expires <= height (expires = height included) fails with
\* "Cannot create expired option" and writes nothing: an empty slot stays
\* empty.
C6_CreateExpiredFails ==
  (call.op = "init" /\ call.expires <= call.height)
  => /\ response = InvalidExpiration
     /\ storage = call.pre

C6_Witness ==
  /\ call.op = "init"
  /\ call.expires = call.height
  /\ call.pre = None
  /\ response = InvalidExpiration
  /\ storage = None

\* C7: on an empty slot, init with expires > height succeeds with no
\* messages, and query_config then returns creator = owner = sender,
\* collateral = sent_funds, and counter_offer and expires as submitted.
C7_CreateRoundTrip ==
  (call.op = "init" /\ call.pre = None /\ call.expires > call.height)
  => /\ response = Ok(<<>>, <<>>)
     /\ query_config(storage).response =
          OkData(State(call.sender, call.sender, call.sent_funds,
                       call.counter_offer, call.expires))

C7_Witness ==
  /\ call.op = "init" /\ call.pre = None
  /\ call.expires > call.height
  /\ call.sent_funds # call.counter_offer
  /\ response.kind = "Ok"
  /\ storage # None

\* C8: init on a slot that already holds a record fails and leaves that
\* record unchanged.
C8_CreateNeverOverwrites ==
  (call.op = "init" /\ Active)
  => /\ response.kind # "Ok"
     /\ storage = call.pre

\* C9: transfer on an Active record by a sender other than the current owner
\* fails with "Sender must be owner" and leaves the record unchanged, the
\* creator included once ownership has moved away from them.
C9_TransferUnauthorized ==
  (call.op = "transfer" /\ Active /\ call.sender # rec.owner)
  => /\ response = Unauthorized
     /\ storage = call.pre

C9_Witness ==
  /\ call.op = "transfer" /\ Active
  /\ call.sender = rec.creator
  /\ call.sender # rec.owner
  /\ response = Unauthorized
  /\ storage = call.pre

\* C10: a successful transfer sets owner to the recipient and nothing else:
\* creator, collateral, counter_offer and expires keep their values, the
\* record stays in the slot, no messages are returned, and a transfer to the
\* current owner leaves the record identical.
C10_TransferFrame ==
  (call.op = "transfer" /\ response.kind = "Ok")
  => /\ Active
     /\ storage # None
     /\ unwrap(storage).owner = call.recipient
     /\ unwrap(storage).creator = rec.creator
     /\ unwrap(storage).collateral = rec.collateral
     /\ unwrap(storage).counter_offer = rec.counter_offer
     /\ unwrap(storage).expires = rec.expires
     /\ response.messages = <<>>
     /\ call.recipient = rec.owner => storage = call.pre

C10_Witness ==
  /\ call.op = "transfer" /\ response.kind = "Ok"
  /\ Active
  /\ call.recipient # rec.owner
  /\ call.recipient # rec.creator
  /\ storage # None
  /\ unwrap(storage).owner = call.recipient

\* C11: once a transfer has moved the record from owner A to another
\* identity B, an execute or transfer call by A fails with "Sender must be
\* owner", one by B is not rejected for its sender, and a successful execute
\* sends the collateral to B, not to A.
C11_NewOwnerIsPrincipal ==
  [][ (/\ Idle /\ storage # None /\ prev_owner # NoAddr
       /\ call'.op \in {"execute", "transfer"})
      => /\ call'.sender = prev_owner => response' = Unauthorized
         /\ call'.sender = unwrap(storage).owner => response' # Unauthorized
         /\ (call'.op = "execute" /\ response'.kind = "Ok")
              => /\ Len(response'.messages) = 2
                 /\ response'.messages[2] =
                      BankSend(contract_address, unwrap(storage).owner,
                               unwrap(storage).collateral)
                 /\ response'.messages[2].to_address # prev_owner ]_vars

C11_Witness ==
  /\ call.op = "execute" /\ Active
  /\ prev_owner # NoAddr
  /\ prev_owner # rec.owner
  /\ call.sender = rec.owner
  /\ response.kind = "Ok"
  /\ response.messages[2].to_address = call.sender

\* C12: on an empty slot (never written, or emptied by execute or burn),
\* query, transfer, execute and burn each fail with NotFound, return no
\* messages and leave the slot empty; a settled record cannot be settled
\* again.
C12_AbsentNotFound ==
  (call.op \in {"query", "transfer", "execute", "burn"} /\ call.pre = None)
  => /\ response = not_found
     /\ response.messages = <<>>
     /\ storage = None

C12_Witness ==
  /\ call.op = "burn" /\ call.pre = None
  /\ settled = 1
  /\ response = not_found
  /\ storage = None

\* C13: burn does not look at the sender: on an Active record at a height
\* >= expires with no funds it succeeds for the creator, the owner and a
\* third party alike, and the one send always goes to the creator.
C13_ReclaimAnyCaller ==
  \A sender \in Addrs :
    (/\ call.op = "burn" /\ Active
     /\ call.sender = sender
     /\ call.height >= rec.expires
     /\ call.sent_funds = <<>>)
    => /\ response.kind = "Ok"
       /\ Len(response.messages) = 1
       /\ response.messages[1].to_address = rec.creator
       /\ response.messages[1].amount = rec.collateral

C13_Witness ==
  /\ call.op = "burn" /\ Active
  /\ call.sender # rec.creator
  /\ call.sender # rec.owner
  /\ rec.owner # rec.creator
  /\ call.height >= rec.expires
  /\ response.kind = "Ok"
  /\ response.messages[1].to_address = rec.creator

\* the number of entries of a Vec<Coin> equal to coin c
CoinCount(funds, c) == Cardinality({i \in DOMAIN funds : funds[i] = c})

\* two Vec<Coin> hold the same (denomination, amount) entries, each as often
SameMultiset(a, b) ==
  \A c \in {a[i] : i \in DOMAIN a} \cup {b[i] : i \in DOMAIN b} :
    CoinCount(a, c) = CoinCount(b, c)

\* C14: for an execute call by the owner before expiry, the call succeeds
\* exactly when sent_funds and counter_offer are the same multiset of
\* (denomination, amount), whatever the order of the entries, and "must send
\* exact counter_offer" is returned only when the multisets differ.
C14_MultisetComparison ==
  (/\ call.op = "execute" /\ Active
   /\ call.sender = rec.owner
   /\ call.height < rec.expires)
  => /\ response.kind = "Ok" <=> SameMultiset(call.sent_funds, rec.counter_offer)
     /\ response = FundsMismatch(rec.counter_offer)
          => ~SameMultiset(call.sent_funds, rec.counter_offer)

\* C15: while a record stays in the slot, no call changes its creator,
\* collateral, counter_offer or expires, and its owner changes only through
\* a successful transfer.
C15_FieldsFixed ==
  (Active /\ storage # None)
  => /\ unwrap(storage).creator = rec.creator
     /\ unwrap(storage).collateral = rec.collateral
     /\ unwrap(storage).counter_offer = rec.counter_offer
     /\ unwrap(storage).expires = rec.expires
     /\ unwrap(storage).owner # rec.owner
          => (call.op = "transfer" /\ response.kind = "Ok")

\* every amount positive and no denomination listed twice
WellFormed(funds) ==
  /\ \A i \in DOMAIN funds : funds[i].amount > 0
  /\ \A i, j \in DOMAIN funds : funds[i].denom = funds[j].denom => i = j

\* C16: whenever a record is in the slot, its collateral and counter_offer
\* each have only positive amounts and no denomination twice, whatever was
\* submitted to init.
C16_FundsWellFormed ==
  storage # None
  => /\ WellFormed(unwrap(storage).collateral)
     /\ WellFormed(unwrap(storage).counter_offer)

\* the number of storage operations of the kinds in `kinds` a call performed
OpCount(kinds) == Cardinality({i \in DOMAIN access : access[i] \in kinds})

\* C17: every call performs at most one load and at most one save or remove
\* of the slot, and a failing call performs no save or remove.
C17_OneLoadOneWrite ==
  /\ OpCount({"load"}) <= 1
  /\ OpCount({"save", "remove"}) <= 1
  /\ response.kind # "Ok" => OpCount({"save", "remove"}) = 0

C17_Witness ==
  /\ call.op = "transfer"
  /\ response.kind = "Ok"
  /\ access = <<"load", "save">>

\* C18: a successful execute ran at a height below expires and a successful
\* burn at a height >= expires, so at no height can both succeed on the
\* record in the slot; and as the height never decreases, no execute
\* succeeds on a record once a height was reached at which burn's expiry
\* test passed.
C18_ExerciseReclaimExclusive ==
  /\ (call.op = "execute" /\ response.kind = "Ok")
       => (Active /\ call.height < rec.expires /\ ~reclaimable)
  /\ (call.op = "burn" /\ response.kind = "Ok")
       => (Active /\ call.height >= rec.expires)
  /\ storage # None
       => ~ /\ \E sender \in Addrs, sent_funds \in FundsChoices :
                 handle_execute(storage, sender, sent_funds, height).response.kind = "Ok"
            /\ \E sent_funds \in FundsChoices :
                 handle_burn(storage, sent_funds, height).response.kind = "Ok"

C18_Witness ==
  /\ call.op = "execute" /\ Active
  /\ call.sender = rec.owner
  /\ call.sent_funds = rec.counter_offer
  /\ reclaimable
  /\ call.height > rec.expires
  /\ response = Expired
  /\ storage = call.pre

\* C19: between one successful init and the next, at most one execute or
\* burn succeeds; that one call sends the collateral in exactly one message
\* and the counter_offer in at most one (one for execute, none for burn).
C19_SettledAtMostOnce ==
  /\ settled <= 1
  /\ (call.op = "execute" /\ response.kind = "Ok")
       => /\ settled = 1
          /\ Len(response.messages) = 2
          /\ response.messages[1].amount = rec.counter_offer
          /\ response.messages[2].amount = rec.collateral
  /\ (call.op = "burn" /\ response.kind = "Ok")
       => /\ settled = 1
          /\ Len(response.messages) = 1
          /\ response.messages[1].amount = rec.collateral

C19_Witness ==
  /\ call.op = "execute" /\ call.pre = None
  /\ settled = 1
  /\ response.kind # "Ok"
  /\ response.messages = <<>>

\* C20: messages are returned only by a successful execute or burn; each is
\* sent from the contract's address, to the creator or the current owner of
\* the record being settled, and carries that record's counter_offer (to the
\* creator only) or its collateral.
C20_TransfersOnlyToParties ==
  response.messages # <<>>
  => /\ call.op \in {"execute", "burn"}
     /\ response.kind = "Ok"
     /\ Active
     /\ \A i \in DOMAIN response.messages :
          LET m == response.messages[i] IN
          /\ m.from_address = contract_address
          /\ \/ m.to_address = rec.creator /\ m.amount = rec.counter_offer
             \/ m.to_address \in {rec.creator, rec.owner} /\ m.amount = rec.collateral

C20_Witness ==
  /\ call.op = "execute" /\ response.kind = "Ok"
  /\ Active
  /\ rec.owner # rec.creator
  /\ rec.collateral # rec.counter_offer
  /\ response.messages[1].to_address = rec.creator
  /\ response.messages[2].to_address = rec.owner

====
